---------------------------- MODULE Spec2Model ----------------------------
(***************************************************************************)
(* Service-order request handling: the Lambda dispatcher (app.py), the     *)
(* request validators (validators.py), the record mapper (models.py) and   *)
(* the DynamoDB repository (repository.py).                                *)
(*                                                                         *)
(* One invocation of lambda_handler is one action.  The DynamoDB table is  *)
(* an external, persistent collaborator: the records it holds when an      *)
(* invocation starts were put there by earlier deployments or other        *)
(* writers, so Init draws it from a family of seed tables.  The table name  *)
(* (config.py) is taken as resolved: constructing the repository succeeds. *)
(***************************************************************************)
EXTENDS Integers, Sequences, FiniteSets, TLC

VARIABLES
    table,      \* DynamoDB table: (PK, SK) -> item
    clock,      \* number of datetime.utcnow() readings so far
    event,      \* the inbound event of the invocation in progress (or NoEvent)
    failAt,     \* which DynamoDB call of this invocation raises ClientError (0: none)
    response,   \* the envelope lambda_handler returned (or NoResponse)
    validator,  \* which request validator ran during the invocation
    calls,      \* the DynamoDB calls made during the invocation, in order
    before,     \* the table as the invocation in progress found it
    verdict,    \* the result of a request validator applied on its own
    inflight    \* concurrent invocations: of each its event, its position, the
                \* item its read returned and its envelope

vars ==
    <<table, clock, event, failAt, response, validator, calls, before, verdict,
      inflight>>

---------------------------------------------------------------------------
(* Bounds *)

\* datetime.utcnow() is read at most MaxClock times in a behaviour
MaxClock == 2

---------------------------------------------------------------------------
(* Values *)

\* a missing dict key / a Python None
Absent == "<absent>"
\* a JSON null in a rendered body
Null == "<null>"

\* uuid.UUID(s): the canonical lower-case text of the identifier s spells, or
\* Malformed when s spells none.  "U1" is a non-canonical (upper-case) spelling
\* of "u1"; "zz" and "" spell nothing.
Malformed == "<malformed>"

CanonicalUuids == {"a1", "a2", "u1", "u2", "e1"}

uuid_UUID(s) ==
    CASE s \in CanonicalUuids -> s
      [] s = "U1" -> "u1"
      [] s = "A1" -> "a1"
      [] OTHER -> Malformed

\* datetime.utcnow().isoformat() at the n-th reading of the clock
isoformat(n) == "2024-01-0" \o ToString(n) \o "T00:00:00"

\* body field values: a JSON string, or the uuid.UUID object the validator
\* replaced it by, or a missing key
Str(s) == [t |-> "str", v |-> s]
UuidObj(c) == [t |-> "uuid", v |-> c]
Missing == [t |-> "missing", v |-> ""]

BodyFields ==
    {"id", "unit_id", "action_id", "service_date", "service_time",
     "service_duration", "service_status", "employee_id", "service_notes",
     "location_id"}

EmptyObj == [f \in BodyFields |-> Missing]

\* Python truthiness of body.get(field)
Truthy(x) == x.t # "missing" /\ x.v # ""


---------------------------------------------------------------------------
(* Inbound events *)

NoEvent == [httpMethod |-> "<no event>"]

\* body kinds: the key is absent (None); the empty string; a string that is
\* not JSON; a string holding a JSON object; an already parsed dict ("map");
\* a string holding a JSON list, null, number or string
Body(kind, obj) == [kind |-> kind, obj |-> obj]

\* the kinds whose json.loads result is not a dict
NonObjectKinds == {"jsonlist", "jsonnull", "jsonnumber", "jsonstring"}

\* a raised exception, and a normal return
Raise(exc) == [raised |-> TRUE, exc |-> exc]
Return(value) == [raised |-> FALSE, value |-> value]

Event(method, id, customerId, locationId, body) ==
    [httpMethod |-> method,
     pathParameters |-> [id |-> id, customerId |-> customerId],
     queryStringParameters |-> [locationId |-> locationId],
     body |-> body]

---------------------------------------------------------------------------
(* validators.py: format validators *)

\* validate_uuid: (is_valid, parsed)
validate_uuid(uuid_str) ==
    LET parsed == uuid_UUID(uuid_str) IN
    IF parsed = Malformed
    THEN [is_valid |-> FALSE, parsed |-> Absent]
    ELSE [is_valid |-> TRUE, parsed |-> parsed]

\* strings ISO_DATE_REGEX ^\d{4}-\d{2}-\d{2}$ matches
MatchesIsoDateRegex(s) == s \in {"2023-06-15", "2023-13-45"}

validate_iso_date(date_str) ==
    IF date_str = Absent THEN TRUE ELSE MatchesIsoDateRegex(date_str)

\* strings ISO_TIME_REGEX ^(\d{2}):(\d{2}):(\d{2})(\.\d+)?(Z|[+-]\d{2}:\d{2})?$
\* matches; the regex requires the seconds
MatchesIsoTimeRegex(s) == s \in {"14:30:00", "24:00:00", "09:15:30.5Z"}

\* int(time.split(":")[0])
HourOf(s) ==
    CASE s \in {"14:30:00", "14:30"} -> 14
      [] s \in {"24:00:00"} -> 24
      [] OTHER -> 9

validate_iso_time(time_str) ==
    IF time_str = Absent THEN TRUE
    ELSE IF ~MatchesIsoTimeRegex(time_str) THEN FALSE
    ELSE 0 <= HourOf(time_str) /\ HourOf(time_str) <= 23

\* values int() converts
IntConvertible(s) == s \in {"30", "120"}

---------------------------------------------------------------------------
(* validators.py: request validators *)

Invalid(msg) ==
    [raised |-> FALSE, is_valid |-> FALSE, error |-> msg, body |-> EmptyObj,
     order_id |-> Absent, customer_id |-> Absent, location_id |-> Absent]

\* a validator returning its result with is_valid True
Valid(body, order_id, customer_id, location_id) ==
    [raised |-> FALSE, is_valid |-> TRUE, error |-> Absent, body |-> body,
     order_id |-> order_id, customer_id |-> customer_id, location_id |-> location_id]

\* the loop over unit_id, action_id, employee_id: the first field whose value
\* is truthy and does not parse, or Absent
FirstBadUuidField(body) ==
    LET bad(f) == Truthy(body[f]) /\ ~validate_uuid(body[f].v).is_valid IN
    IF bad("unit_id") THEN "unit_id"
    ELSE IF bad("action_id") THEN "action_id"
    ELSE IF bad("employee_id") THEN "employee_id"
    ELSE Absent

\* body[field] = parsed_uuid for every truthy identifier field
WithParsedUuids(body) ==
    [f \in BodyFields |->
        IF f \in {"unit_id", "action_id", "employee_id"} /\ Truthy(body[f])
        THEN UuidObj(validate_uuid(body[f].v).parsed)
        ELSE body[f]]

\* _validate_request_common: (is_valid, error), and the body as it leaves it
validate_request_common(body) ==
    IF body["unit_id"].t = "missing"
    THEN [is_valid |-> FALSE, error |-> "Missing required field: unit_id", body |-> body]
    ELSE IF body["action_id"].t = "missing"
    THEN [is_valid |-> FALSE, error |-> "Missing required field: action_id", body |-> body]
    ELSE IF FirstBadUuidField(body) # Absent
    THEN [is_valid |-> FALSE,
          error |-> "Invalid UUID format for " \o FirstBadUuidField(body),
          body |-> body]
    ELSE IF body["service_date"].t # "missing" /\ ~validate_iso_date(body["service_date"].v)
    THEN [is_valid |-> FALSE, error |-> "Invalid ISO 8601 format for service_date",
          body |-> WithParsedUuids(body)]
    ELSE IF body["service_time"].t # "missing" /\ ~validate_iso_time(body["service_time"].v)
    THEN [is_valid |-> FALSE, error |-> "Invalid ISO 8601 format for service_time",
          body |-> WithParsedUuids(body)]
    ELSE IF body["service_duration"].t # "missing" /\ ~IntConvertible(body["service_duration"].v)
    THEN [is_valid |-> FALSE, error |-> "service_duration must be an integer",
          body |-> WithParsedUuids(body)]
    ELSE [is_valid |-> TRUE, error |-> Absent, body |-> WithParsedUuids(body)]

\* `not x` for a path or query parameter: missing or empty
Falsy(x) == x = Absent \/ x = ""

\* validate_create_request looking for locationId before it looks at the body
validate_create_request_location_first(ev) ==
    LET customer_id == ev.pathParameters.customerId
        location_id == ev.queryStringParameters.locationId
        body == [ev.body.obj EXCEPT !["location_id"] = Str(location_id)]
        common == validate_request_common(body)
    IN  IF Falsy(customer_id) THEN Invalid("Missing customerId in path parameters")
        ELSE IF Falsy(location_id) THEN Invalid("Missing locationId in query parameters")
        ELSE IF \/ ev.body.kind \in {"absent", "empty"}
                \/ ev.body.kind = "map" /\ ev.body.obj = EmptyObj
        THEN Invalid("Missing request body")
        ELSE IF ev.body.kind = "badjson" THEN Invalid("Invalid JSON in request body")
        ELSE IF ev.body.kind \in NonObjectKinds THEN Raise("TypeError")
        ELSE IF ~common.is_valid THEN Invalid(common.error)
        ELSE Valid(common.body, Absent, Absent, Absent)

validate_create_request(ev) ==
    LET customer_id == ev.pathParameters.customerId
        location_id == ev.queryStringParameters.locationId
        body == [ev.body.obj EXCEPT !["location_id"] = Str(location_id)]
        common == validate_request_common(body)
    IN  IF Falsy(customer_id) THEN Invalid("Missing customerId in path parameters")
        \* `if not body`: None, the empty string and the empty dict
        ELSE IF \/ ev.body.kind \in {"absent", "empty"}
                \/ ev.body.kind = "map" /\ ev.body.obj = EmptyObj
        THEN Invalid("Missing request body")
        ELSE IF ev.body.kind = "badjson" THEN Invalid("Invalid JSON in request body")
        ELSE IF Falsy(location_id) THEN Invalid("Missing locationId in query parameters")
        \* body["location_id"] = location_id on a list, None, number or str
        ELSE IF ev.body.kind \in NonObjectKinds THEN Raise("TypeError")
        ELSE IF ~common.is_valid THEN Invalid(common.error)
        ELSE Valid(common.body, Absent, Absent, Absent)

\* validate_update_request requiring locationId as the create validator does
validate_update_request_needs_location(ev) ==
    LET service_order_id == ev.pathParameters.id
        customer_id == ev.pathParameters.customerId
        common == validate_request_common(ev.body.obj)
    IN  IF Falsy(service_order_id)
        THEN Invalid("Missing service order id in path parameters")
        ELSE IF ~validate_uuid(service_order_id).is_valid
        THEN Invalid("Invalid UUID format for service order id")
        ELSE IF Falsy(customer_id) THEN Invalid("Missing customerId in path parameters")
        ELSE IF ev.body.kind = "absent" THEN Invalid("Missing request body")
        ELSE IF ev.body.kind \in {"empty", "badjson"}
        THEN Invalid("Invalid JSON in request body")
        ELSE IF Falsy(ev.queryStringParameters.locationId)
        THEN Invalid("Missing locationId in query parameters")
        ELSE IF ev.body.kind \in {"jsonnull", "jsonnumber"} THEN Raise("TypeError")
        ELSE IF ~common.is_valid THEN Invalid(common.error)
        ELSE Valid(common.body, Absent, customer_id, Absent)

validate_update_request(ev) ==
    LET service_order_id == ev.pathParameters.id
        customer_id == ev.pathParameters.customerId
        common == validate_request_common(ev.body.obj)
    IN  IF Falsy(service_order_id)
        THEN Invalid("Missing service order id in path parameters")
        ELSE IF ~validate_uuid(service_order_id).is_valid
        THEN Invalid("Invalid UUID format for service order id")
        ELSE IF Falsy(customer_id) THEN Invalid("Missing customerId in path parameters")
        ELSE IF ev.body.kind = "absent" THEN Invalid("Missing request body")
        ELSE IF ev.body.kind \in {"empty", "badjson"}
        THEN Invalid("Invalid JSON in request body")
        \* "unit_id" not in body: a TypeError on None and on a number; on a
        \* list and on a str the test is a membership test that finds nothing
        ELSE IF ev.body.kind \in {"jsonnull", "jsonnumber"} THEN Raise("TypeError")
        ELSE IF ~common.is_valid THEN Invalid(common.error)
        ELSE Valid(common.body, Absent, customer_id, Absent)

\* validate_delete_request returning the id in its canonical spelling
validate_delete_request_canonical(ev) ==
    LET service_order_id == ev.pathParameters.id
        customer_id == ev.pathParameters.customerId
    IN  IF service_order_id = Absent
        THEN Invalid("Missing service order id in path parameters")
        ELSE IF customer_id = Absent
        THEN Invalid("Missing customerId in path parameters")
        ELSE IF ~validate_uuid(service_order_id).is_valid
        THEN Invalid("Invalid UUID format for service order id")
        ELSE Valid(EmptyObj, validate_uuid(service_order_id).parsed, customer_id, Absent)

validate_delete_request(ev) ==
    LET service_order_id == ev.pathParameters.id
        customer_id == ev.pathParameters.customerId
    IN  IF service_order_id = Absent
        THEN Invalid("Missing service order id in path parameters")
        ELSE IF customer_id = Absent
        THEN Invalid("Missing customerId in path parameters")
        ELSE IF ~validate_uuid(service_order_id).is_valid
        THEN Invalid("Invalid UUID format for service order id")
        ELSE Valid(EmptyObj, service_order_id, customer_id, Absent)

\* validate_get_request looking at the id before it looks for customerId
validate_get_request_id_first(ev) ==
    LET service_order_id == ev.pathParameters.id
        customer_id == ev.pathParameters.customerId
        location_id == ev.queryStringParameters.locationId
    IN  IF ~Falsy(service_order_id) /\ ~validate_uuid(service_order_id).is_valid
        THEN Invalid("Invalid UUID format for service order id")
        ELSE IF Falsy(customer_id) THEN Invalid("Missing customerId in path parameters")
        ELSE Valid(EmptyObj, service_order_id, customer_id, location_id)

validate_get_request(ev) ==
    LET service_order_id == ev.pathParameters.id
        customer_id == ev.pathParameters.customerId
        location_id == ev.queryStringParameters.locationId
    IN  IF Falsy(customer_id) THEN Invalid("Missing customerId in path parameters")
        ELSE IF ~Falsy(service_order_id) /\ ~validate_uuid(service_order_id).is_valid
        THEN Invalid("Invalid UUID format for service order id")
        ELSE Valid(EmptyObj, service_order_id, customer_id, location_id)

---------------------------------------------------------------------------
(* models.py: the record mapper *)

\* the attributes of a DynamoDBServiceOrder; Absent marks an attribute the
\* item does not carry (sparse representation)
OptionalAttrs ==
    {"location_id", "service_date", "service_time", "service_duration",
     "service_status", "employee_id", "service_notes", "updated_at", "deleted_at"}

Item(pk, sk, unit_id, action_id, created_at, opt) ==
    [PK |-> pk, SK |-> sk, unit_id |-> unit_id, action_id |-> action_id,
     created_at |-> created_at,
     location_id |-> opt["location_id"], service_date |-> opt["service_date"],
     service_time |-> opt["service_time"],
     service_duration |-> opt["service_duration"],
     service_status |-> opt["service_status"], employee_id |-> opt["employee_id"],
     service_notes |-> opt["service_notes"], updated_at |-> opt["updated_at"],
     deleted_at |-> opt["deleted_at"]]

NoOptional == [a \in OptionalAttrs |-> Absent]

\* ServiceOrderCreate.model_validate / ServiceOrderUpdate.model_validate: the
\* dataclasses define from_dict, to_dict and __post_init__ only, so the
\* attribute lookup raises AttributeError
model_validate(cls, body) == Raise("AttributeError")

\* db_item.dict(exclude_none=True) and service_order.dict(exclude_unset=True,
\* exclude_none=True): the dataclasses define to_dict, not dict
dataclass_dict(obj) == Raise("AttributeError")

\* a validated body value as the dataclass holds it, and `if value:` on it
FieldText(x) == IF x.t = "missing" THEN Absent ELSE x.v

\* DynamoDBServiceOrder.from_service_order
from_service_order(order_id, customer_id, service_order, timestamp, isCreate) ==
    LET copy(f) == IF Truthy(service_order[f]) THEN service_order[f].v ELSE Absent IN
    Item(order_id, customer_id,
         FieldText(service_order["unit_id"]), FieldText(service_order["action_id"]),
         timestamp,
         [a \in OptionalAttrs |->
            CASE a = "location_id" -> IF isCreate THEN copy(a) ELSE Absent
              [] a = "service_duration" -> FieldText(service_order[a])
              [] a \in {"updated_at", "deleted_at"} -> Absent
              [] OTHER -> copy(a)])

\* models.validate_date_format: datetime.fromisoformat accepts the string
ParsesAsIsoDate(s) == s \in {"2023-06-15"}

\* models.validate_time_format: the regex with optional seconds and hour
\* 0..23, else datetime.fromisoformat
ParsesAsIsoTime(s) == s \in {"14:30:00", "14:30", "09:15:30.5Z"}

\* DynamoDBServiceOrder.to_response_model followed by
\* ServiceOrderResponse.__post_init__ and model_dump(): the rendered body, or
\* the ValueError a value that does not decode raises
to_response_model(item) ==
    LET set(a) == item[a] # Absent /\ item[a] # ""
        shown(a) == IF set(a) THEN item[a] ELSE Null
    IN  IF \/ uuid_UUID(item.PK) = Malformed
           \/ uuid_UUID(item.unit_id) = Malformed
           \/ uuid_UUID(item.action_id) = Malformed
           \/ set("employee_id") /\ uuid_UUID(item.employee_id) = Malformed
           \/ item.SK = ""
           \/ set("service_date") /\ ~ParsesAsIsoDate(item.service_date)
           \/ set("service_time") /\ ~ParsesAsIsoTime(item.service_time)
           \/ item.service_duration # Absent /\ ~IntConvertible(item.service_duration)
        THEN Raise("ValueError")
        ELSE Return(
            [id |-> uuid_UUID(item.PK), customer_id |-> item.SK,
             unit_id |-> uuid_UUID(item.unit_id),
             action_id |-> uuid_UUID(item.action_id),
             created_at |-> item.created_at,
             location_id |-> shown("location_id"),
             service_date |-> shown("service_date"),
             service_time |-> shown("service_time"),
             service_duration |->
                IF item.service_duration # Absent THEN item.service_duration ELSE Null,
             service_status |-> shown("service_status"),
             employee_id |->
                IF set("employee_id") THEN uuid_UUID(item.employee_id) ELSE Null,
             service_notes |-> shown("service_notes"),
             updated_at |-> shown("updated_at"),
             deleted_at |-> shown("deleted_at")])

---------------------------------------------------------------------------
(* repository.py: ServiceOrderRepository over the DynamoDB table *)

\* the order in which the CustomerIndex query returns the items of a customer
PKOrder == <<"a1", "a2">>

\* The context a handler threads through its store calls: the table, the
\* clock, the calls made so far and the call that raises ClientError.
Ctx(t, c, k, f) ==
    [table |-> t, clock |-> c, calls |-> k, failAt |-> f, pageSize |-> Len(PKOrder)]

\* one DynamoDB call: recorded, and raising ClientError when its turn comes
Called(ctx, op) == [ctx EXCEPT !.calls = Append(@, op)]
Fails(ctx) == Len(ctx.calls) + 1 = ctx.failAt

NoItem == [PK |-> Absent]

\* get_service_order looking the item up by its PK alone, under any customer
get_service_order_any_customer(ctx, order_id, customer_id) ==
    LET after == Called(ctx, "get_item")
        keys == {k \in DOMAIN ctx.table : k[1] = order_id}
    IN  IF Fails(ctx) THEN [raised |-> TRUE, exc |-> "ClientError", ctx |-> after]
        ELSE [raised |-> FALSE,
              value |-> IF keys # {} THEN ctx.table[CHOOSE k \in keys : TRUE] ELSE NoItem,
              ctx |-> after]

\* get_item(Key={PK, SK}).get("Item")
get_service_order(ctx, order_id, customer_id) ==
    LET after == Called(ctx, "get_item")
        key == <<order_id, customer_id>>
    IN  IF Fails(ctx) THEN [raised |-> TRUE, exc |-> "ClientError", ctx |-> after]
        ELSE [raised |-> FALSE,
              value |-> IF key \in DOMAIN ctx.table THEN ctx.table[key] ELSE NoItem,
              ctx |-> after]

\* update_item(Key, "SET ...", ReturnValues="ALL_NEW"): DynamoDB sets the
\* attributes on the item under Key, creating the item if there is none
update_item(ctx, key, sets) ==
    LET after == Called(ctx, "update_item")
        old == IF key \in DOMAIN ctx.table THEN ctx.table[key]
               ELSE Item(key[1], key[2], Absent, Absent, Absent, NoOptional)
        new == [a \in DOMAIN old |-> IF a \in DOMAIN sets THEN sets[a] ELSE old[a]]
        t2 == [k \in DOMAIN ctx.table \cup {key} |-> IF k = key THEN new ELSE ctx.table[k]]
    IN  IF Fails(ctx) THEN [raised |-> TRUE, exc |-> "ClientError", ctx |-> after]
        ELSE [raised |-> FALSE, value |-> new, ctx |-> [after EXCEPT !.table = t2]]

\* put_item(Item=item)
put_item(ctx, item) ==
    LET after == Called(ctx, "put_item")
        key == <<item.PK, item.SK>>
        t2 == [k \in DOMAIN ctx.table \cup {key} |-> IF k = key THEN item ELSE ctx.table[k]]
    IN  IF Fails(ctx) THEN [raised |-> TRUE, exc |-> "ClientError", ctx |-> after]
        ELSE [raised |-> FALSE, value |-> item, ctx |-> [after EXCEPT !.table = t2]]

\* datetime.utcnow().isoformat(): the clock advances at every reading
Tick(ctx) == [ctx EXCEPT !.clock = @ + 1]

create_service_order(ctx, order_id, customer_id, service_order) ==
    LET ctx1 == Tick(ctx)
        db_item == from_service_order(uuid_UUID(order_id), customer_id, service_order,
                                      isoformat(ctx1.clock), TRUE)
        item_dict == dataclass_dict(db_item)
    IN  IF item_dict.raised
        THEN [raised |-> TRUE, exc |-> item_dict.exc, ctx |-> ctx1]
        ELSE put_item(ctx1, item_dict.value)

\* the SET clauses update_service_order builds from
\* service_order.dict(exclude_unset=True, exclude_none=True)
UpdateSets(model_dict, timestamp) ==
    LET present == {f \in DOMAIN model_dict :
                      /\ f \in {"unit_id", "action_id", "service_date", "service_time",
                                "service_duration", "service_status", "employee_id",
                                "service_notes"}
                      /\ model_dict[f].t # "missing"}
    IN  [a \in present \cup {"updated_at"} |->
            IF a = "updated_at" THEN timestamp ELSE model_dict[a].v]

update_service_order(ctx, order_id, customer_id, service_order) ==
    LET existing == get_service_order(ctx, order_id, customer_id) IN
    IF existing.raised THEN existing
    ELSE IF existing.value = NoItem
    THEN [raised |-> FALSE, value |-> NoItem, ctx |-> existing.ctx]
    ELSE LET ctx1 == Tick(existing.ctx)
             model_dict == dataclass_dict(service_order)
         IN  IF model_dict.raised
             THEN [raised |-> TRUE, exc |-> model_dict.exc, ctx |-> ctx1]
             ELSE update_item(ctx1, <<order_id, customer_id>>,
                              UpdateSets(model_dict.value, isoformat(ctx1.clock)))

\* mark_service_order_deleted writing its timestamp to the wrong attribute
mark_service_order_deleted_wrong_attr(ctx, order_id, customer_id) ==
    LET existing == get_service_order(ctx, order_id, customer_id) IN
    IF existing.raised THEN existing
    ELSE IF existing.value = NoItem
    THEN [raised |-> FALSE, value |-> FALSE, ctx |-> existing.ctx]
    ELSE LET ctx1 == Tick(existing.ctx)
             upd == update_item(ctx1, <<order_id, customer_id>>,
                                [a \in {"created_at"} |-> isoformat(ctx1.clock)])
         IN  IF upd.raised THEN upd
             ELSE [raised |-> FALSE, value |-> TRUE, ctx |-> upd.ctx]

\* mark_service_order_deleted treating a record already marked as not found
mark_service_order_deleted_once(ctx, order_id, customer_id) ==
    LET existing == get_service_order(ctx, order_id, customer_id) IN
    IF existing.raised THEN existing
    ELSE IF existing.value = NoItem \/ existing.value.deleted_at # Absent
    THEN [raised |-> FALSE, value |-> FALSE, ctx |-> existing.ctx]
    ELSE LET ctx1 == Tick(existing.ctx)
             upd == update_item(ctx1, <<order_id, customer_id>>,
                                [a \in {"deleted_at"} |-> isoformat(ctx1.clock)])
         IN  IF upd.raised THEN upd
             ELSE [raised |-> FALSE, value |-> TRUE, ctx |-> upd.ctx]

\* the part of mark_service_order_deleted after its read, writing whether
\* or not the read found an item
mark_deleted_after_read_unchecked(ctx, order_id, customer_id, existing) ==
    LET ctx1 == Tick(ctx)
        upd == update_item(ctx1, <<order_id, customer_id>>,
                           [a \in {"deleted_at"} |-> isoformat(ctx1.clock)])
    IN  IF upd.raised THEN upd
        ELSE [raised |-> FALSE, value |-> TRUE, ctx |-> upd.ctx]

\* the part of mark_service_order_deleted after its read: `if not
\* existing_item: return False`, else the unconditional update_item
mark_deleted_after_read(ctx, order_id, customer_id, existing) ==
    IF existing = NoItem
    THEN [raised |-> FALSE, value |-> FALSE, ctx |-> ctx]
    ELSE LET ctx1 == Tick(ctx)
             upd == update_item(ctx1, <<order_id, customer_id>>,
                                [a \in {"deleted_at"} |-> isoformat(ctx1.clock)])
         IN  IF upd.raised THEN upd
             ELSE [raised |-> FALSE, value |-> TRUE, ctx |-> upd.ctx]

\* True: marked; False: not found
mark_service_order_deleted(ctx, order_id, customer_id) ==
    LET existing == get_service_order(ctx, order_id, customer_id) IN
    IF existing.raised THEN existing
    ELSE IF existing.value = NoItem
    THEN [raised |-> FALSE, value |-> FALSE, ctx |-> existing.ctx]
    ELSE LET ctx1 == Tick(existing.ctx)
             upd == update_item(ctx1, <<order_id, customer_id>>,
                                [a \in {"deleted_at"} |-> isoformat(ctx1.clock)])
         IN  IF upd.raised THEN upd
             ELSE [raised |-> FALSE, value |-> TRUE, ctx |-> upd.ctx]

\* the keys of the items the CustomerIndex holds for a customer, in the
\* order in which the index returns them
KeysOfCustomer(t, customer_id) ==
    SelectSeq([i \in 1..Len(PKOrder) |-> <<PKOrder[i], customer_id>>],
              LAMBDA k : k \in DOMAIN t)

\* table.query(**query_params) and the `while "LastEvaluatedKey" in response`
\* loop: each call reads the next page of at most pageSize keys, the store
\* applies the FilterExpression to the page, and the response carries a
\* LastEvaluatedKey while keys remain
RECURSIVE query_pages(_, _, _, _)
query_pages(ctx, keys, location_id, items) ==
    LET after == Called(ctx, "query")
        n == IF Len(keys) < ctx.pageSize THEN Len(keys) ELSE ctx.pageSize
        page == SubSeq(keys, 1, n)
        rest == SubSeq(keys, n + 1, Len(keys))
        kept == SelectSeq(page, LAMBDA k :
                    Falsy(location_id) \/ ctx.table[k].location_id = location_id)
        extended == items \o [i \in 1..Len(kept) |-> ctx.table[kept[i]]]
    IN  IF Fails(ctx) THEN [raised |-> TRUE, exc |-> "ClientError", ctx |-> after]
        ELSE IF rest = <<>> THEN [raised |-> FALSE, value |-> extended, ctx |-> after]
        ELSE query_pages(after, rest, location_id, extended)

\* the customer query returning after its first call, whatever
\* LastEvaluatedKey the response carries
query_service_orders_by_customer_first_page(ctx, customer_id, location_id) ==
    LET keys == KeysOfCustomer(ctx.table, customer_id)
        n == IF Len(keys) < ctx.pageSize THEN Len(keys) ELSE ctx.pageSize
    IN  query_pages(ctx, SubSeq(keys, 1, n), location_id, <<>>)

\* the customer query leaving out the records marked deleted
query_service_orders_by_customer_live(ctx, customer_id, location_id) ==
    LET live == [k \in {j \in DOMAIN ctx.table : ctx.table[j].deleted_at = Absent}
                    |-> ctx.table[k]]
        result == query_pages([ctx EXCEPT !.table = live],
                              KeysOfCustomer(live, customer_id), location_id, <<>>)
    IN  [result EXCEPT !.ctx.table = ctx.table]

\* query(IndexName="CustomerIndex", SK = customer_id [, location_id = :l]),
\* every page drained
query_service_orders_by_customer(ctx, customer_id, location_id) ==
    query_pages(ctx, KeysOfCustomer(ctx.table, customer_id), location_id, <<>>)

---------------------------------------------------------------------------
(* app.py: the dispatcher *)

\* a Python None passed as the body, and the bodies the handlers pass
PyNone == [kind |-> "none"]
ErrorBody(msg) == [kind |-> "error", error |-> msg]
OrderBody(order) == [kind |-> "order", order |-> order]
ListBody(items) == [kind |-> "list", items |-> items]

CorsHeaders ==
    [ContentType |-> "application/json",
     AccessControlAllowOrigin |-> "*",
     AccessControlAllowMethods |-> "OPTIONS,POST,GET,PUT,DELETE",
     AccessControlAllowHeaders |-> "Content-Type,X-Amz-Date,Authorization,X-Api-Key"]

\* create_response testing `if body:`, which drops an empty list
create_response_truthy(status_code, body) ==
    [statusCode |-> status_code, headers |-> CorsHeaders,
     hasBody |-> body # PyNone /\ body # ListBody(<<>>), body |-> body]

\* the envelope; the "body" key is set only `if body is not None`
create_response(status_code, body) ==
    [statusCode |-> status_code, headers |-> CorsHeaders,
     hasBody |-> body # PyNone, body |-> body]

NoResponse == [statusCode |-> 0, headers |-> CorsHeaders, hasBody |-> FALSE, body |-> PyNone]

\* no envelope: an exception raised outside the handlers' try blocks leaves
\* lambda_handler
Escaped(exc) ==
    [statusCode |-> 0, headers |-> CorsHeaders, hasBody |-> FALSE,
     body |-> [kind |-> "exception", exc |-> exc]]

\* what a handler hands back: the envelope, the store context it leaves, and
\* the request validator it ran
Handled(resp, ctx, v) == [response |-> resp, ctx |-> ctx, validator |-> v]

\* the except clause answering with the text of the exception
Caught_leaking(exc) ==
    IF exc = "ValidationError"
    THEN create_response(400, ErrorBody(exc))
    ELSE create_response(500, ErrorBody(exc))

\* the handlers' except clauses: ValidationError -> 400 str(e), any other
\* Exception -> 500
Caught(exc) ==
    IF exc = "ValidationError"
    THEN create_response(400, ErrorBody(exc))
    ELSE create_response(500, ErrorBody("Internal server error"))

handle_create_request(ev, ctx, uuid4) ==
    LET validation_result == validate_create_request(ev) IN
    IF validation_result.raised
    THEN Handled(Escaped(validation_result.exc), ctx, "create")
    ELSE IF ~validation_result.is_valid
    THEN Handled(create_response(400, ErrorBody(validation_result.error)), ctx, "create")
    ELSE
      LET customer_id == ev.pathParameters.customerId
          service_order == model_validate("ServiceOrderCreate", validation_result.body)
      IN  IF service_order.raised
          THEN Handled(Caught(service_order.exc), ctx, "create")
          ELSE
            LET item == create_service_order(ctx, uuid4, customer_id, service_order.value) IN
            IF item.raised THEN Handled(Caught(item.exc), item.ctx, "create")
            ELSE
              LET response_model == to_response_model(item.value) IN
              IF response_model.raised
              THEN Handled(Caught(response_model.exc), item.ctx, "create")
              ELSE Handled(create_response(201, OrderBody(response_model.value)),
                           item.ctx, "create")

handle_update_request(ev, ctx) ==
    LET validation_result == validate_update_request(ev) IN
    IF validation_result.raised
    THEN Handled(Escaped(validation_result.exc), ctx, "update")
    ELSE IF ~validation_result.is_valid
    THEN Handled(create_response(400, ErrorBody(validation_result.error)), ctx, "update")
    ELSE
      LET customer_id == validation_result.customer_id
          order_id == ev.pathParameters.id
          service_order == model_validate("ServiceOrderUpdate", validation_result.body)
      IN  IF service_order.raised
          THEN Handled(Caught(service_order.exc), ctx, "update")
          ELSE
            LET updated_item ==
                  update_service_order(ctx, order_id, customer_id, service_order.value)
            IN  IF updated_item.raised
                THEN Handled(Caught(updated_item.exc), updated_item.ctx, "update")
                ELSE IF updated_item.value = NoItem
                THEN Handled(create_response(404, ErrorBody("Service order not found")),
                             updated_item.ctx, "update")
                ELSE
                  LET response_model == to_response_model(updated_item.value) IN
                  IF response_model.raised
                  THEN Handled(Caught(response_model.exc), updated_item.ctx, "update")
                  ELSE Handled(create_response(200, OrderBody(response_model.value)),
                               updated_item.ctx, "update")

\* handle_delete_request marking the record before it looks at the verdict
handle_delete_request_store_first(ev, ctx) ==
    LET validation_result == validate_delete_request(ev)
        success == mark_service_order_deleted(ctx, ev.pathParameters.id,
                                              ev.pathParameters.customerId)
    IN  IF ~validation_result.is_valid
        THEN Handled(create_response(400, ErrorBody(validation_result.error)),
                     success.ctx, "delete")
        ELSE IF success.raised THEN Handled(Caught(success.exc), success.ctx, "delete")
        ELSE IF ~success.value
        THEN Handled(create_response(404, ErrorBody("Service order not found")),
                     success.ctx, "delete")
        ELSE Handled(create_response(204, PyNone), success.ctx, "delete")

handle_delete_request(ev, ctx) ==
    LET validation_result == validate_delete_request(ev) IN
    IF ~validation_result.is_valid
    THEN Handled(create_response(400, ErrorBody(validation_result.error)), ctx, "delete")
    ELSE
      LET success == mark_service_order_deleted(ctx, validation_result.order_id,
                                                validation_result.customer_id)
      IN  IF success.raised THEN Handled(Caught(success.exc), success.ctx, "delete")
          ELSE IF ~success.value
          THEN Handled(create_response(404, ErrorBody("Service order not found")),
                       success.ctx, "delete")
          ELSE Handled(create_response(204, PyNone), success.ctx, "delete")

\* the rendering loop of the customer query: every item rendered, in order,
\* or the first exception
RenderAll(items) ==
    LET rendered == [i \in 1..Len(items) |-> to_response_model(items[i])] IN
    IF \E i \in 1..Len(items) : rendered[i].raised
    THEN Raise("ValueError")
    ELSE Return([i \in 1..Len(items) |-> rendered[i].value])

handle_get_request(ev, ctx) ==
    LET validation_result == validate_get_request(ev) IN
    IF ~validation_result.is_valid
    THEN Handled(create_response(400, ErrorBody(validation_result.error)), ctx, "get")
    ELSE
      LET order_id == validation_result.order_id
          customer_id == validation_result.customer_id
          location_id == validation_result.location_id
      IN  IF ~Falsy(order_id)
          THEN
            LET item == get_service_order(ctx, order_id, customer_id) IN
            IF item.raised THEN Handled(Caught(item.exc), item.ctx, "get")
            ELSE IF item.value = NoItem
            THEN Handled(create_response(404, ErrorBody("Service order not found")),
                         item.ctx, "get")
            ELSE
              LET response_model == to_response_model(item.value) IN
              IF response_model.raised
              THEN Handled(Caught(response_model.exc), item.ctx, "get")
              ELSE Handled(create_response(200, OrderBody(response_model.value)),
                           item.ctx, "get")
          ELSE
            LET items == query_service_orders_by_customer(ctx, customer_id, location_id) IN
            IF items.raised THEN Handled(Caught(items.exc), items.ctx, "get")
            ELSE
              LET response_models == RenderAll(items.value) IN
              IF response_models.raised
              THEN Handled(Caught(response_models.exc), items.ctx, "get")
              ELSE Handled(create_response(200, ListBody(response_models.value)),
                           items.ctx, "get")

\* lambda_handler without the OPTIONS branch
lambda_handler_no_options(ev, ctx, uuid4) ==
    LET http_method == ev.httpMethod IN
    IF http_method = "POST" THEN handle_create_request(ev, ctx, uuid4)
    ELSE IF http_method = "PUT" THEN handle_update_request(ev, ctx)
    ELSE IF http_method = "DELETE" THEN handle_delete_request(ev, ctx)
    ELSE IF http_method = "GET" THEN handle_get_request(ev, ctx)
    ELSE Handled(create_response(405, ErrorBody("Method not allowed")), ctx, "none")

lambda_handler(ev, ctx, uuid4) ==
    LET http_method == ev.httpMethod IN
    IF http_method = "OPTIONS" THEN Handled(create_response(200, PyNone), ctx, "none")
    ELSE IF http_method = "POST" THEN handle_create_request(ev, ctx, uuid4)
    ELSE IF http_method = "PUT" THEN handle_update_request(ev, ctx)
    ELSE IF http_method = "DELETE" THEN handle_delete_request(ev, ctx)
    ELSE IF http_method = "GET" THEN handle_get_request(ev, ctx)
    ELSE Handled(create_response(405, ErrorBody("Method not allowed")), ctx, "none")

---------------------------------------------------------------------------
(* The inputs *)

PathIds == {Absent, "a1", "a2", "zz"}
CustomerIds == {Absent, "", "c1", "c2"}
LocationIds == {Absent, "l1"}

\* JSON objects a create or update body holds
BodyObjects ==
    {[EmptyObj EXCEPT !["unit_id"] = u, !["action_id"] = a,
                      !["service_status"] = s, !["id"] = i] :
        u \in {Missing, Str("u1"), Str("U1"), Str("zz")},
        a \in {Missing, Str("u2")},
        s \in {Missing, Str("done")},
        i \in {Missing, Str("a1")}}

\* service_date values: a calendar date, a string of the right shape that is
\* no calendar date (month 13), a string of another shape
ServiceDates == {"2023-06-15", "2023-13-45", "06/15/2023"}

\* an otherwise complete JSON object carrying a service_date
DatedObjects ==
    {[EmptyObj EXCEPT !["unit_id"] = Str("u1"), !["action_id"] = Str("u2"),
                      !["service_date"] = Str(d)] : d \in ServiceDates}

\* an otherwise complete JSON object carrying a location_id of its own
LocatedObjects ==
    {[EmptyObj EXCEPT !["unit_id"] = Str("u1"), !["action_id"] = Str("u2"),
                      !["location_id"] = Str("l9")]}

Bodies ==
    {Body("absent", EmptyObj), Body("empty", EmptyObj), Body("badjson", EmptyObj),
     Body("jsonlist", EmptyObj), Body("jsonnull", EmptyObj)}
        \cup {Body("json", o) : o \in BodyObjects \cup DatedObjects \cup LocatedObjects}

\* bodies sent with the methods that read none
PlainBodies == {Body("absent", EmptyObj), Body("json", EmptyObj)}

EventsOf(method) ==
    CASE method = "POST" ->
            {Event(method, Absent, c, l, b) :
                c \in CustomerIds, l \in LocationIds, b \in Bodies}
      [] method = "PUT" ->
            {Event(method, i, c, Absent, b) :
                i \in PathIds, c \in CustomerIds, b \in Bodies}
      [] method = "DELETE" ->
            {Event(method, i, c, Absent, b) :
                i \in PathIds, c \in CustomerIds, b \in PlainBodies}
      [] method = "GET" ->
            {Event(method, i, c, l, Body("absent", EmptyObj)) :
                i \in PathIds \cup {""}, c \in CustomerIds, l \in LocationIds}
      [] OTHER ->
            {Event(method, i, c, Absent, Body("absent", EmptyObj)) :
                i \in {Absent, "a1"}, c \in CustomerIds}

\* an httpMethod the dispatcher does not route, and an event without the key
UnroutedMethods == {"PATCH", Absent}

\* which DynamoDB call of the invocation raises ClientError (0: none); no
\* handler makes more than two calls
FailAts == {0, 1, 2}

\* how many keys a page of the customer query holds: a store that pages after
\* every item, and one that returns a customer's items in one page
PageSizes == {1, Len(PKOrder)}

\* the values uuid.uuid4() may return, and the argument of the routes that
\* never call it
NewUuids == {"a1", "a2"}
NoUuid == Absent

\* The items the table may hold when the first invocation starts.  The item
\* under (a1, c2) carries a unit_id that does not decode.
SeedItems ==
    {Item("a1", "c1", "u1", "u2", isoformat(0),
          [NoOptional EXCEPT !["location_id"] = "l1", !["service_status"] = "scheduled"]),
     Item("a1", "c2", "zz", "u2", isoformat(0),
          [NoOptional EXCEPT !["location_id"] = "l1"]),
     Item("a2", "c1", "u1", "u2", isoformat(0),
          [NoOptional EXCEPT !["location_id"] = "l2", !["employee_id"] = "e1"])}

\* no validator has been applied on its own
NoVerdict == Invalid("<no verdict>")

\* no concurrent invocations
NoInflight == <<>>

TableOf(items) ==
    [k \in {<<it.PK, it.SK>> : it \in items} |->
        CHOOSE it \in items : <<it.PK, it.SK>> = k]

---------------------------------------------------------------------------
(* The state machine *)

Init ==
    /\ table \in {TableOf(items) : items \in SUBSET SeedItems}
    /\ clock = 0
    /\ event = NoEvent
    /\ failAt = 0
    /\ response = NoResponse
    /\ validator = "none"
    /\ calls = <<>>
    /\ before = table
    /\ verdict = NoVerdict
    /\ inflight = NoInflight

\* Each action is one whole invocation of lambda_handler on an event ev, the
\* f-th DynamoDB call of the invocation raising ClientError; the invocation
\* takes the table as it finds it and leaves its envelope in response.

OptionsRequest ==
    /\ event = NoEvent
    /\ \E ev \in EventsOf("OPTIONS"), f \in FailAts :
         \E out \in {lambda_handler(ev, Ctx(table, clock, <<>>, f), NoUuid)} :
           /\ out.ctx.clock <= MaxClock
           /\ event' = ev
           /\ failAt' = f
           /\ response' = out.response
           /\ validator' = out.validator
           /\ table' = out.ctx.table
           /\ clock' = out.ctx.clock
           /\ calls' = out.ctx.calls
           /\ before' = table
           /\ UNCHANGED <<verdict, inflight>>

CreateRequest ==
    /\ event = NoEvent
    /\ \E ev \in EventsOf("POST"), f \in FailAts, uuid4 \in NewUuids :
         \E out \in {lambda_handler(ev, Ctx(table, clock, <<>>, f), uuid4)} :
           /\ out.ctx.clock <= MaxClock
           /\ event' = ev
           /\ failAt' = f
           /\ response' = out.response
           /\ validator' = out.validator
           /\ table' = out.ctx.table
           /\ clock' = out.ctx.clock
           /\ calls' = out.ctx.calls
           /\ before' = table
           /\ UNCHANGED <<verdict, inflight>>

UpdateRequest ==
    /\ event = NoEvent
    /\ \E ev \in EventsOf("PUT"), f \in FailAts :
         \E out \in {lambda_handler(ev, Ctx(table, clock, <<>>, f), NoUuid)} :
           /\ out.ctx.clock <= MaxClock
           /\ event' = ev
           /\ failAt' = f
           /\ response' = out.response
           /\ validator' = out.validator
           /\ table' = out.ctx.table
           /\ clock' = out.ctx.clock
           /\ calls' = out.ctx.calls
           /\ before' = table
           /\ UNCHANGED <<verdict, inflight>>

DeleteRequest ==
    /\ event = NoEvent
    /\ \E ev \in EventsOf("DELETE"), f \in FailAts :
         \E out \in {lambda_handler(ev, Ctx(table, clock, <<>>, f), NoUuid)} :
           /\ out.ctx.clock <= MaxClock
           /\ event' = ev
           /\ failAt' = f
           /\ response' = out.response
           /\ validator' = out.validator
           /\ table' = out.ctx.table
           /\ clock' = out.ctx.clock
           /\ calls' = out.ctx.calls
           /\ before' = table
           /\ UNCHANGED <<verdict, inflight>>

GetRequest ==
    /\ event = NoEvent
    /\ \E ev \in EventsOf("GET"), f \in FailAts, p \in PageSizes :
         \E out \in {lambda_handler(ev, [Ctx(table, clock, <<>>, f) EXCEPT !.pageSize = p],
                                     NoUuid)} :
           /\ out.ctx.clock <= MaxClock
           /\ event' = ev
           /\ failAt' = f
           /\ response' = out.response
           /\ validator' = out.validator
           /\ table' = out.ctx.table
           /\ clock' = out.ctx.clock
           /\ calls' = out.ctx.calls
           /\ before' = table
           /\ UNCHANGED <<verdict, inflight>>

UnsupportedRequest ==
    /\ event = NoEvent
    /\ \E m \in UnroutedMethods, f \in FailAts : \E ev \in EventsOf(m) :
         \E out \in {lambda_handler(ev, Ctx(table, clock, <<>>, f), NoUuid)} :
           /\ out.ctx.clock <= MaxClock
           /\ event' = ev
           /\ failAt' = f
           /\ response' = out.response
           /\ validator' = out.validator
           /\ table' = out.ctx.table
           /\ clock' = out.ctx.clock
           /\ calls' = out.ctx.calls
           /\ before' = table
           /\ UNCHANGED <<verdict, inflight>>

\* the envelope is handed to the caller and the invocation ends; nothing but
\* the table (and the clock) outlives it
Finish ==
    /\ event # NoEvent
    /\ event' = NoEvent
    /\ failAt' = 0
    /\ response' = NoResponse
    /\ validator' = "none"
    /\ calls' = <<>>
    /\ before' = table
    /\ UNCHANGED <<table, clock, verdict, inflight>>

Next ==
    \/ OptionsRequest
    \/ CreateRequest
    \/ UpdateRequest
    \/ DeleteRequest
    \/ GetRequest
    \/ UnsupportedRequest
    \/ Finish

Spec == Init /\ [][Next]_vars

---------------------------------------------------------------------------
(* The request validators on their own: each is a function of the event.   *)
(* ValidatorInit draws the event, one action per validator applies it.     *)

\* JSON objects with every field the validators look at
ValidatorObjects ==
    {[EmptyObj EXCEPT !["unit_id"] = u, !["action_id"] = a, !["employee_id"] = e,
                      !["service_date"] = d, !["service_time"] = t,
                      !["service_duration"] = n] :
        u \in {Missing, Str(""), Str("u1"), Str("zz")},
        a \in {Missing, Str("u2"), Str("zz")},
        e \in {Missing, Str("e1"), Str("zz")},
        d \in {Missing} \cup {Str(x) : x \in ServiceDates},
        t \in {Missing, Str("14:30:00"), Str("14:30"), Str("24:00:00")},
        n \in {Missing, Str("30"), Str("abc")}}

ValidatorBodies ==
    {Body(k, EmptyObj) : k \in {"absent", "empty", "badjson"} \cup NonObjectKinds}
        \cup {Body(k, o) : k \in {"json", "map"}, o \in ValidatorObjects}

\* bodies sent with the methods whose validators read none
IgnoredBodies ==
    {Body(k, EmptyObj) : k \in {"absent", "badjson", "jsonlist", "jsonnull", "map"}}

ValidatorPathIds == {Absent, "", "a1", "A1", "zz"}
ValidatorCustomerIds == {Absent, "", "c1"}
ValidatorLocationIds == {Absent, "", "l1"}

\* the event a validator is applied to
ValidatorInit ==
    /\ \/ \E c \in ValidatorCustomerIds, l \in ValidatorLocationIds,
             b \in ValidatorBodies :
               event = Event("POST", Absent, c, l, b)
       \/ \E i \in {Absent, "a1", "zz"}, c \in ValidatorCustomerIds,
             l \in {Absent, "l1"}, b \in ValidatorBodies :
               event = Event("PUT", i, c, l, b)
       \/ \E i \in ValidatorPathIds, c \in ValidatorCustomerIds,
             l \in ValidatorLocationIds, b \in IgnoredBodies :
               event = Event("DELETE", i, c, l, b)
       \/ \E i \in ValidatorPathIds, c \in ValidatorCustomerIds,
             l \in ValidatorLocationIds, b \in IgnoredBodies :
               event = Event("GET", i, c, l, b)
    /\ verdict = NoVerdict
    /\ validator = "none"
    /\ table = TableOf({})
    /\ before = TableOf({})
    /\ clock = 0
    /\ failAt = 0
    /\ response = NoResponse
    /\ calls = <<>>
    /\ inflight = NoInflight

ValidateCreate ==
    /\ validator = "none"
    /\ event.httpMethod = "POST"
    /\ verdict' = validate_create_request(event)
    /\ validator' = "create"
    /\ UNCHANGED <<table, clock, event, failAt, response, calls, before, inflight>>

ValidateUpdate ==
    /\ validator = "none"
    /\ event.httpMethod = "PUT"
    /\ verdict' = validate_update_request(event)
    /\ validator' = "update"
    /\ UNCHANGED <<table, clock, event, failAt, response, calls, before, inflight>>

ValidateDelete ==
    /\ validator = "none"
    /\ event.httpMethod = "DELETE"
    /\ verdict' = validate_delete_request(event)
    /\ validator' = "delete"
    /\ UNCHANGED <<table, clock, event, failAt, response, calls, before, inflight>>

ValidateGet ==
    /\ validator = "none"
    /\ event.httpMethod = "GET"
    /\ verdict' = validate_get_request(event)
    /\ validator' = "get"
    /\ UNCHANGED <<table, clock, event, failAt, response, calls, before, inflight>>

ValidatorNext ==
    \/ ValidateCreate
    \/ ValidateUpdate
    \/ ValidateDelete
    \/ ValidateGet

ValidatorSpec == ValidatorInit /\ [][ValidatorNext]_vars

---------------------------------------------------------------------------
(* Concurrent invocations: two Lambda instances serve one request each     *)
(* against the same table.  Every DynamoDB call is atomic; an invocation   *)
(* that makes two calls (delete: get_item, then update_item) may be        *)
(* overtaken between them.                                                 *)

Procs == {1, 2}

\* the payloads of the concurrent updates
DeltaObjects ==
    {[EmptyObj EXCEPT !["unit_id"] = Str("u1"), !["action_id"] = Str("u2"),
                      !["service_status"] = Str("done")],
     [EmptyObj EXCEPT !["unit_id"] = Str("u2"), !["action_id"] = Str("u2"),
                      !["service_notes"] = Str("call first")]}

ConcurrentEvents ==
    {Event("DELETE", i, "c1", Absent, Body("absent", EmptyObj)) : i \in {"a1", "a2"}}
    \cup {Event("PUT", i, "c1", Absent, Body("json", o)) :
            i \in {"a1", "a2"}, o \in DeltaObjects}
    \cup {Event("POST", Absent, "c1", "l1", Body("json", o)) : o \in DeltaObjects}
    \cup {Event("GET", "a1", "c1", Absent, Body("absent", EmptyObj))}

\* an invocation that has received its event and done nothing yet
Started(ev) ==
    [event |-> ev, pc |-> "start", existing |-> NoItem, response |-> NoResponse]

ConcurrentInit ==
    /\ table \in {TableOf(items) : items \in SUBSET SeedItems}
    /\ before = table
    /\ clock = 0
    /\ inflight \in [Procs -> {Started(ev) : ev \in ConcurrentEvents}]
    /\ event = NoEvent
    /\ failAt = 0
    /\ response = NoResponse
    /\ validator = "none"
    /\ calls = <<>>
    /\ verdict = NoVerdict

\* create, update and get-by-id: the handlers of create and update raise
\* before they reach the repository and get-by-id makes one call, so the
\* whole invocation is one atomic step
HandleAtOnce(p) ==
    /\ inflight[p].pc = "start"
    /\ inflight[p].event.httpMethod # "DELETE"
    /\ \E uuid4 \in NewUuids :
         \E out \in {lambda_handler(inflight[p].event, Ctx(table, clock, <<>>, 0), uuid4)} :
           /\ out.ctx.clock <= MaxClock
           /\ table' = out.ctx.table
           /\ clock' = out.ctx.clock
           /\ inflight' = [inflight EXCEPT ![p].pc = "done",
                                           ![p].response = out.response]
    /\ UNCHANGED <<event, failAt, response, validator, calls, before, verdict>>

\* delete, up to and including the get_item of mark_service_order_deleted
DeleteRead(p) ==
    /\ inflight[p].pc = "start"
    /\ inflight[p].event.httpMethod = "DELETE"
    /\ LET validation_result == validate_delete_request(inflight[p].event) IN
       IF ~validation_result.is_valid
       THEN inflight' = [inflight EXCEPT
                ![p].pc = "done",
                ![p].response =
                    create_response(400, ErrorBody(validation_result.error))]
       ELSE inflight' = [inflight EXCEPT
                ![p].pc = "read",
                ![p].existing =
                    get_service_order(Ctx(table, clock, <<>>, 0),
                                      validation_result.order_id,
                                      validation_result.customer_id).value]
    /\ UNCHANGED <<table, clock, event, failAt, response, validator, calls, before,
                   verdict>>

\* delete, from the test of what the read returned to the envelope
DeleteWrite(p) ==
    /\ inflight[p].pc = "read"
    /\ \E success \in {mark_deleted_after_read(
                            Ctx(table, clock, <<"get_item">>, 0),
                            validate_delete_request(inflight[p].event).order_id,
                            validate_delete_request(inflight[p].event).customer_id,
                            inflight[p].existing)} :
         /\ success.ctx.clock <= MaxClock
         /\ table' = success.ctx.table
         /\ clock' = success.ctx.clock
         /\ inflight' = [inflight EXCEPT
                ![p].pc = "done",
                ![p].response =
                    IF success.value THEN create_response(204, PyNone)
                    ELSE create_response(404, ErrorBody("Service order not found"))]
    /\ UNCHANGED <<event, failAt, response, validator, calls, before, verdict>>

ConcurrentNext ==
    \E p \in Procs :
        \/ HandleAtOnce(p)
        \/ DeleteRead(p)
        \/ DeleteWrite(p)

ConcurrentSpec == ConcurrentInit /\ [][ConcurrentNext]_vars

---------------------------------------------------------------------------
(* Vocabulary of the properties *)

RoutedMethods == {"POST", "PUT", "DELETE", "GET"}

\* an invocation has ended
Invoked == event # NoEvent

\* an invocation has returned its envelope
Responded == Invoked /\ response.body.kind # "exception"

\* the verdict of the request validator of the event's method
ValidationOf(ev) ==
    CASE ev.httpMethod = "POST" -> validate_create_request(ev)
      [] ev.httpMethod = "PUT" -> validate_update_request(ev)
      [] ev.httpMethod = "DELETE" -> validate_delete_request(ev)
      [] ev.httpMethod = "GET" -> validate_get_request(ev)
      [] OTHER -> Invalid("no validator")

Routed == Responded /\ event.httpMethod \in RoutedMethods
PassedValidation == Routed /\ ValidationOf(event).is_valid
FailedValidation == Routed /\ ~ValidationOf(event).is_valid

\* the key the request addresses
KeyOf(ev) == <<ev.pathParameters.id, ev.pathParameters.customerId>>
ByKey(ev) == ev.httpMethod \in {"PUT", "DELETE"} \/ (ev.httpMethod = "GET" /\ ~Falsy(ev.pathParameters.id))
ByCustomer(ev) == ev.httpMethod = "GET" /\ Falsy(ev.pathParameters.id)

\* no DynamoDB call of the invocation raised / one did
NoStoreFault == failAt = 0
StoreRaised == failAt # 0 /\ Len(calls) = failAt

\* every stored item the request reads decodes
Renderable(ev) ==
    \A k \in DOMAIN table :
        (k = KeyOf(ev) \/ (ByCustomer(ev) /\ k[2] = ev.pathParameters.customerId))
            => ~to_response_model(table[k]).raised

\* a record the invocation rendered did not decode (the handlers that get as
\* far as rendering a stored record are those of GET)
RenderRaised == event.httpMethod = "GET" /\ NoStoreFault /\ ~Renderable(event)

\* a validator has been applied to the event on its own
Validated == verdict # NoVerdict

\* the JSON value of a stored attribute in a rendered record
Shown(x) == IF x = Absent \/ x = "" THEN Null ELSE x

\* a check of a validator: the condition under which it fails and its message
Check(fails, msg) == [fails |-> fails, msg |-> msg]

\* the message of the first failing check of a sequence, or Absent
FirstFailure(checks) ==
    IF \E i \in 1..Len(checks) : checks[i].fails
    THEN checks[CHOOSE i \in 1..Len(checks) :
                    /\ checks[i].fails
                    /\ \A j \in 1..(i - 1) : ~checks[j].fails].msg
    ELSE Absent

\* the checks on the fields of a create or update body, in the order in which
\* their failures are to be reported
FieldChecks(obj) ==
    LET badUuid(f) == Truthy(obj[f]) /\ uuid_UUID(obj[f].v) = Malformed
        carries(f) == obj[f].t # "missing"
    IN  << Check(~carries("unit_id"), "Missing required field: unit_id"),
           Check(~carries("action_id"), "Missing required field: action_id"),
           Check(badUuid("unit_id"), "Invalid UUID format for unit_id"),
           Check(badUuid("action_id"), "Invalid UUID format for action_id"),
           Check(badUuid("employee_id"), "Invalid UUID format for employee_id"),
           Check(carries("service_date") /\ ~validate_iso_date(obj["service_date"].v),
                 "Invalid ISO 8601 format for service_date"),
           Check(carries("service_time") /\ ~validate_iso_time(obj["service_time"].v),
                 "Invalid ISO 8601 format for service_time"),
           Check(carries("service_duration") /\ ~IntConvertible(obj["service_duration"].v),
                 "service_duration must be an integer") >>

\* the checks of a create request that precede those on the fields
CreateEnvelopeChecks(ev) ==
    << Check(Falsy(ev.pathParameters.customerId),
             "Missing customerId in path parameters"),
       Check(\/ ev.body.kind \in {"absent", "empty"}
             \/ ev.body.kind = "map" /\ ev.body.obj = EmptyObj,
             "Missing request body"),
       Check(ev.body.kind = "badjson", "Invalid JSON in request body"),
       Check(Falsy(ev.queryStringParameters.locationId),
             "Missing locationId in query parameters") >>

\* the checks of an update request that precede those on the fields
UpdateEnvelopeChecks(ev) ==
    << Check(Falsy(ev.pathParameters.id),
             "Missing service order id in path parameters"),
       Check(uuid_UUID(ev.pathParameters.id) = Malformed,
             "Invalid UUID format for service order id"),
       Check(Falsy(ev.pathParameters.customerId),
             "Missing customerId in path parameters"),
       Check(ev.body.kind = "absent", "Missing request body"),
       Check(ev.body.kind \in {"empty", "badjson"}, "Invalid JSON in request body") >>

\* strings of the shape HH:MM, optionally :SS, optionally a fraction,
\* optionally a zone
HasTimeShape(s) == s \in {"14:30", "14:30:00", "24:00:00", "09:15:30.5Z"}

\* the records of a table that belong to a customer
OwnRecords(t, customer_id) ==
    [k \in {j \in DOMAIN t : j[2] = customer_id} |-> t[k]]

\* the status codes of the envelopes
StatusCodes == {200, 201, 204, 400, 404, 405, 500}

\* a stored record after update_item has applied the SET clauses of a payload
ApplyDelta(record, body) ==
    LET sets == UpdateSets(body, isoformat(0)) IN
    [a \in DOMAIN record |-> IF a \in DOMAIN sets THEN sets[a] ELSE record[a]]

\* two records agree on everything but updated_at
SameButUpdatedAt(r1, r2) ==
    \A a \in DOMAIN r1 \ {"updated_at"} : r1[a] = r2[a]

\* the concurrent invocation p has returned its envelope
Done(p) == inflight[p].pc = "done"

InternalError == create_response(500, ErrorBody("Internal server error"))
NotFound == create_response(404, ErrorBody("Service order not found"))

---------------------------------------------------------------------------
(* Properties *)

\* C1: every request that passes validation and whose store calls succeed is
\* answered with the success code of its operation: POST 201, PUT of an
\* existing record 200, GET by id of an existing record 200, GET by customer
\* 200 with a list, DELETE of an existing record 204.
C1_SuccessCodes ==
    (PassedValidation /\ NoStoreFault /\ Renderable(event)) =>
        /\ event.httpMethod = "POST" => response.statusCode = 201
        /\ (event.httpMethod = "PUT" /\ KeyOf(event) \in DOMAIN table)
              => response.statusCode = 200
        /\ (event.httpMethod = "GET" /\ ByKey(event) /\ KeyOf(event) \in DOMAIN table)
              => response.statusCode = 200
        /\ ByCustomer(event)
              => (response.statusCode = 200 /\ response.body.kind = "list")
        /\ (event.httpMethod = "DELETE" /\ KeyOf(event) \in DOMAIN table)
              => response.statusCode = 204

\* C2: a POST, PUT, DELETE or GET whose request validator reports the request
\* invalid is answered 400 with the validator's message as the error, makes
\* no DynamoDB call and leaves the table as it was.
C2_InvalidRequestIs400 ==
    [][ (event = NoEvent /\ event' # NoEvent /\ event'.httpMethod \in RoutedMethods
            /\ ~ValidationOf(event').raised
            /\ ~ValidationOf(event').is_valid)
        => /\ response' = create_response(400, ErrorBody(ValidationOf(event').error))
           /\ calls' = <<>>
           /\ table' = table ]_vars

C2_Witness ==
    /\ FailedValidation
    /\ event.httpMethod = "PUT"
    /\ response.statusCode = 400
    /\ response.body = ErrorBody("Missing required field: unit_id")
    /\ DOMAIN table # {}

\* C3: a valid update, delete or get-by-id addressed to a pair (id,
\* customerId) under which no record is stored is answered 404 "Service order
\* not found", also when a record with that id is stored under another
\* customer.
C3_NotFoundIs404 ==
    (PassedValidation /\ ByKey(event) /\ NoStoreFault /\ KeyOf(event) \notin DOMAIN table)
        => response = NotFound

\* C4: once validation has succeeded, a DynamoDB call that raises or a stored
\* record that does not render is answered 500 with the body exactly
\* {error: "Internal server error"}.
C4_ExceptionIs500 ==
    (PassedValidation /\ (StoreRaised \/ RenderRaised)) => response = InternalError

C4_Witness ==
    /\ PassedValidation
    /\ \/ event.httpMethod = "DELETE" /\ failAt = 2 /\ calls = <<"get_item", "update_item">>
       \/ /\ ByCustomer(event) /\ NoStoreFault /\ ~Renderable(event)
          /\ calls = <<"query">>
    /\ response = InternalError

\* C5: OPTIONS is answered 200 and a method other than OPTIONS, POST, PUT,
\* DELETE, GET (or no method at all) is answered 405 "Method not allowed",
\* both without running a validator or calling the store; only POST, PUT,
\* DELETE and GET reach a validator.
C5_Routing ==
    Responded =>
        /\ event.httpMethod = "OPTIONS"
              => (response.statusCode = 200 /\ validator = "none" /\ calls = <<>>)
        /\ event.httpMethod \notin (RoutedMethods \cup {"OPTIONS"})
              => /\ response = create_response(405, ErrorBody("Method not allowed"))
                 /\ validator = "none"
                 /\ calls = <<>>
        /\ validator # "none" => event.httpMethod \in RoutedMethods
        /\ event.httpMethod \in RoutedMethods => validator # "none"

C5_Witness ==
    /\ Responded
    /\ event.httpMethod = Absent
    /\ response.statusCode = 405
    /\ DOMAIN table # {}

\* C6: the envelope has no body exactly when its status is 204 or the request
\* was OPTIONS; every other response, the empty list included, has one.
C6_BodyAbsence ==
    Responded => (~response.hasBody <=> (response.statusCode = 204 \/ event.httpMethod = "OPTIONS"))

C6_Witness ==
    /\ Responded
    /\ response.statusCode = 200
    /\ response.hasBody
    /\ response.body = ListBody(<<>>)

\* C7: a create answers with a freshly generated order identifier, distinct
\* from any id the request body carries, and stores the record under it.
C7_FreshOrderId ==
    (PassedValidation /\ event.httpMethod = "POST" /\ NoStoreFault) =>
        /\ response.statusCode = 201
        /\ response.body.kind = "order"
        /\ response.body.order.id # event.body.obj["id"].v
        /\ <<response.body.order.id, event.pathParameters.customerId>> \in DOMAIN table

\* C8: the 201 response of a well-formed create carries the unit_id and
\* action_id of the request and the customerId of the path.
C8_CreateRoundTrip ==
    (PassedValidation /\ event.httpMethod = "POST" /\ NoStoreFault) =>
        /\ response.statusCode = 201
        /\ response.body.kind = "order"
        /\ response.body.order.unit_id = event.body.obj["unit_id"].v
        /\ response.body.order.action_id = event.body.obj["action_id"].v
        /\ response.body.order.customer_id = event.pathParameters.customerId

\* C9: a successful update leaves every optional field its payload does not
\* carry as it was: an update of a stored record whose payload has no
\* service_status succeeds and the stored and rendered service_status are
\* those of the record before.
C9_PartialUpdateIsolation ==
    [][ (event = NoEvent /\ event' # NoEvent /\ event'.httpMethod = "PUT"
            /\ ~ValidationOf(event').raised
            /\ ValidationOf(event').is_valid /\ failAt' = 0
            /\ KeyOf(event') \in DOMAIN table
            /\ ~to_response_model(table[KeyOf(event')]).raised)
        => /\ response'.statusCode = 200
           /\ response'.body.kind = "order"
           /\ \A a \in OptionalAttrs \ {"updated_at", "deleted_at", "location_id"} :
                event'.body.obj[a].t = "missing"
                    => /\ table'[KeyOf(event')][a] = table[KeyOf(event')][a]
                       /\ response'.body.order[a] =
                             to_response_model(table[KeyOf(event')]).value[a] ]_vars

\* C10: the order_id, customer_id and created_at of a stored record never
\* change, whatever update and delete do to it: every step keeps the record
\* under its key with these three attributes as they were.
C10_ImmutableAttributes ==
    [][ \A k \in DOMAIN table :
            /\ k \in DOMAIN table'
            /\ table'[k].PK = table[k].PK
            /\ table'[k].SK = table[k].SK
            /\ table'[k].created_at = table[k].created_at ]_vars

C10_Witness ==
    /\ Responded
    /\ event.httpMethod = "DELETE"
    /\ response.statusCode = 204
    /\ KeyOf(event) \in DOMAIN table
    /\ table[KeyOf(event)].deleted_at # Absent
    /\ table[KeyOf(event)].created_at = isoformat(0)
    /\ table[KeyOf(event)].PK = event.pathParameters.id
    /\ table[KeyOf(event)].SK = event.pathParameters.customerId

\* C11: a stored record has no updated_at until its first successful update:
\* a valid update of a stored record succeeds (200) and sets the record's
\* updated_at to the timestamp the update read, and no other invocation -- a
\* failed or not-found update included -- changes any record's updated_at.
C11_UpdatedAt ==
    /\ (PassedValidation /\ event.httpMethod = "PUT" /\ NoStoreFault
            /\ KeyOf(event) \in DOMAIN before
            /\ ~to_response_model(before[KeyOf(event)]).raised)
          => /\ response.statusCode = 200
             /\ table[KeyOf(event)].updated_at = isoformat(clock)
    /\ \A k \in DOMAIN table \cap DOMAIN before :
          table[k].updated_at # before[k].updated_at
              => /\ event.httpMethod = "PUT"
                 /\ response.statusCode = 200
                 /\ k = KeyOf(event)

\* C12: a delete answered 204 leaves the record stored under the same key with
\* deleted_at set to its timestamp and every other attribute as it was, and
\* reads do not filter such records: a get-by-id of a stored record is
\* answered 200 with the record, deleted_at included, and a get-by-customer
\* lists every stored record of the customer (at the location, when one is
\* given), the deleted ones included.
C12_SoftDelete ==
    /\ (Responded /\ event.httpMethod = "DELETE" /\ response.statusCode = 204)
          => /\ KeyOf(event) \in DOMAIN before
             /\ KeyOf(event) \in DOMAIN table
             /\ table[KeyOf(event)] =
                    [before[KeyOf(event)] EXCEPT !.deleted_at = isoformat(clock)]
    /\ (PassedValidation /\ event.httpMethod = "GET" /\ NoStoreFault
            /\ Renderable(event))
          => /\ (ByKey(event) /\ KeyOf(event) \in DOMAIN table)
                   => /\ response.statusCode = 200
                      /\ response.body.kind = "order"
                      /\ response.body.order.id = event.pathParameters.id
                      /\ response.body.order.deleted_at
                            = Shown(table[KeyOf(event)].deleted_at)
             /\ ByCustomer(event)
                   => /\ response.statusCode = 200
                      /\ response.body.kind = "list"
                      /\ \A k \in DOMAIN table :
                            (/\ k[2] = event.pathParameters.customerId
                             /\ \/ Falsy(event.queryStringParameters.locationId)
                                \/ table[k].location_id
                                      = event.queryStringParameters.locationId)
                            => \E i \in 1..Len(response.body.items) :
                                 /\ response.body.items[i].id = k[1]
                                 /\ response.body.items[i].deleted_at
                                       = Shown(table[k].deleted_at)

C12_Witness ==
    /\ ByCustomer(event)
    /\ response.statusCode = 200
    /\ response.body.kind = "list"
    /\ \E i \in 1..Len(response.body.items) :
         /\ response.body.items[i].deleted_at # Null
         /\ <<response.body.items[i].id, event.pathParameters.customerId>>
               \in DOMAIN table

\* C13 (as stated): the second of two identical deletes finds nothing: a
\* valid delete of a record already marked deleted is answered 404.
C13_SecondDeleteNotFound ==
    (PassedValidation /\ event.httpMethod = "DELETE" /\ NoStoreFault
        /\ KeyOf(event) \in DOMAIN before
        /\ before[KeyOf(event)].deleted_at # Absent)
      => response = NotFound

\* C13 (amended): a valid delete is answered 204 whenever a record is stored
\* under its key, marked deleted or not: the second of two identical deletes
\* is answered 204 again and overwrites deleted_at with its own timestamp;
\* 404 is answered only when no record is stored under the key.
C13_SecondDeleteSucceeds ==
    (PassedValidation /\ event.httpMethod = "DELETE" /\ NoStoreFault)
      => /\ KeyOf(event) \in DOMAIN before
              => /\ response = create_response(204, PyNone)
                 /\ table[KeyOf(event)].deleted_at = isoformat(clock)
                 /\ table[KeyOf(event)].deleted_at # before[KeyOf(event)].deleted_at
         /\ KeyOf(event) \notin DOMAIN before => response = NotFound

C13_Witness ==
    /\ PassedValidation
    /\ event.httpMethod = "DELETE"
    /\ KeyOf(event) \in DOMAIN before
    /\ before[KeyOf(event)].deleted_at # Absent
    /\ response.statusCode = 204
    /\ table[KeyOf(event)].deleted_at = isoformat(2)

\* C14: a rendered record carries a key for an optional field only if the
\* field is set: no optional field of a record in a response body is null.
C14_NoNullFields ==
    Responded =>
        /\ response.body.kind = "order"
              => \A a \in OptionalAttrs : response.body.order[a] # Null
        /\ response.body.kind = "list"
              => \A i \in 1..Len(response.body.items) :
                    \A a \in OptionalAttrs : response.body.items[i][a] # Null

\* C15: the create validator reports the first failure in this order:
\* customerId missing, body missing, body not JSON, locationId missing,
\* unit_id key missing, action_id key missing, malformed unit_id, action_id,
\* employee_id, then service_date, service_time, service_duration; it reports
\* the request valid when none of these fails.
C15_CreateValidationOrder ==
    (Validated /\ event.httpMethod = "POST"
        /\ (\/ event.body.kind \notin NonObjectKinds
            \/ FirstFailure(CreateEnvelopeChecks(event)) # Absent))
      => LET first == FirstFailure(CreateEnvelopeChecks(event)
                                   \o FieldChecks(event.body.obj))
         IN  /\ ~verdict.raised
             /\ first # Absent => verdict = Invalid(first)
             /\ first = Absent => verdict.is_valid

C15_Witness ==
    /\ Validated
    /\ event.httpMethod = "POST"
    /\ verdict = Invalid("Invalid UUID format for employee_id")
    /\ event.body.obj["service_date"] = Str("06/15/2023")
    /\ event.body.obj["service_time"] = Str("24:00:00")
    /\ event.body.obj["service_duration"] = Str("abc")

C17_DeleteValidation ==
    (Validated /\ event.httpMethod = "DELETE")
      => LET id == event.pathParameters.id
             customerId == event.pathParameters.customerId
         IN  /\ ~verdict.raised
             /\ id = Absent
                   => verdict = Invalid("Missing service order id in path parameters")
             /\ (id # Absent /\ customerId = Absent)
                   => verdict = Invalid("Missing customerId in path parameters")
             /\ (id # Absent /\ customerId # Absent /\ uuid_UUID(id) = Malformed)
                   => verdict = Invalid("Invalid UUID format for service order id")
             /\ verdict.is_valid
                   <=> (id # Absent /\ customerId # Absent /\ uuid_UUID(id) # Malformed)
             /\ verdict.is_valid
                   => (verdict.order_id = id /\ verdict.customer_id = customerId)

C17_Witness ==
    /\ Validated
    /\ event.httpMethod = "DELETE"
    /\ event.pathParameters.id = "A1"
    /\ event.body.kind = "badjson"
    /\ verdict.is_valid
    /\ verdict.order_id = "A1"

\* C18: the get validator reports "Missing customerId in path parameters"
\* whenever customerId is absent, whatever id and locationId; otherwise the
\* request is valid exactly when the id is absent or well formed, and the
\* result carries id, customerId and locationId as given.  A valid request
\* with an id is served by one get under the key, locationId ignored; one
\* without an id by the customer query, which keeps the records of the
\* location when a locationId is given.
C18_GetValidation ==
    (Responded /\ event.httpMethod = "GET")
      => LET id == event.pathParameters.id
             customerId == event.pathParameters.customerId
             locationId == event.queryStringParameters.locationId
             v == validate_get_request(event)
             listed == {k \in DOMAIN table :
                          /\ k[2] = customerId
                          /\ (Falsy(locationId) \/ table[k].location_id = locationId)}
         IN  /\ Falsy(customerId)
                   => /\ v = Invalid("Missing customerId in path parameters")
                      /\ response = create_response(400, ErrorBody(v.error))
             /\ ~Falsy(customerId)
                   => /\ v.is_valid <=> (Falsy(id) \/ uuid_UUID(id) # Malformed)
                      /\ v.is_valid => /\ v.order_id = id
                                        /\ v.customer_id = customerId
                                        /\ v.location_id = locationId
                      /\ ~v.is_valid
                            => v = Invalid("Invalid UUID format for service order id")
             /\ (v.is_valid /\ ~Falsy(id))
                   => /\ calls = <<"get_item">>
                      /\ (NoStoreFault /\ KeyOf(event) \in DOMAIN table
                            /\ Renderable(event))
                           => response = create_response(200,
                                OrderBody(to_response_model(table[KeyOf(event)]).value))
             /\ (v.is_valid /\ Falsy(id))
                   => /\ calls # <<>>
                      /\ \A i \in 1..Len(calls) : calls[i] = "query"
                      /\ (NoStoreFault /\ Renderable(event))
                           => /\ response.statusCode = 200
                              /\ response.body.kind = "list"
                              /\ Len(response.body.items) = Cardinality(listed)
                              /\ {response.body.items[i].id :
                                     i \in 1..Len(response.body.items)}
                                    = {k[1] : k \in listed}

C18_Witness ==
    /\ ByCustomer(event)
    /\ event.queryStringParameters.locationId = "l1"
    /\ response.statusCode = 200
    /\ response.body.kind = "list"
    /\ Len(response.body.items) = 1
    /\ Cardinality({k \in DOMAIN table : k[2] = event.pathParameters.customerId}) = 2

\* C19: no request validator raises, whatever the event: the body absent, a
\* map, or a string holding any JSON value (object, list, number, string,
\* null).
C19_ValidatorsNeverRaise ==
    Validated => ~verdict.raised

\* C20: a create or update, otherwise valid, whose body carries a service_date
\* that is no ISO calendar date (of another shape, or of the right shape with
\* month 13) is answered 400 "Invalid ISO 8601 format for service_date", never
\* 500, and writes nothing.
C20_BadDateIs400 ==
    (Routed /\ event.httpMethod \in {"POST", "PUT"} /\ event.body.kind = "json"
        /\ event.body.obj["service_date"].t # "missing"
        /\ ~ParsesAsIsoDate(event.body.obj["service_date"].v)
        /\ ValidationOf([event EXCEPT !.body.obj["service_date"] = Missing]).is_valid)
      => /\ response = create_response(400,
                ErrorBody("Invalid ISO 8601 format for service_date"))
         /\ table = before
         /\ calls = <<>>

\* C21: every create or update payload a request validator reports valid has
\* unit_id and action_id present and parsed: both keys exist and both values
\* are identifiers, none empty or left unparsed.
C21_RequiredIdsWellFormed ==
    (Validated /\ event.httpMethod \in {"POST", "PUT"}
        /\ ~verdict.raised /\ verdict.is_valid)
      => /\ verdict.body["unit_id"].t = "uuid"
         /\ verdict.body["action_id"].t = "uuid"

\* C22: a valid create succeeds (201) and the location_id of its validated
\* payload, of the record it stores and of its response is the locationId
\* query parameter, whatever location_id the body carries; a create without a
\* locationId query parameter is rejected.
C22_LocationFromQuery ==
    /\ (PassedValidation /\ event.httpMethod = "POST" /\ NoStoreFault)
          => /\ ValidationOf(event).body["location_id"]
                   = Str(event.queryStringParameters.locationId)
             /\ response.statusCode = 201
             /\ response.body.kind = "order"
             /\ response.body.order.location_id = event.queryStringParameters.locationId
             /\ \E k \in DOMAIN table :
                   /\ k = <<response.body.order.id, event.pathParameters.customerId>>
                   /\ table[k].location_id = event.queryStringParameters.locationId
    /\ (Responded /\ event.httpMethod = "POST"
            /\ Falsy(event.queryStringParameters.locationId))
          => response.statusCode = 400

\* C23: the request validator's time check accepts an absent service_time
\* and accepts a string exactly when it has the shape HH:MM[:SS][.f][zone]
\* and its hour is in 0..23: a create or update that passes every other check
\* is valid exactly when its service_time is absent or such a string.
C23_TimeCheck ==
    (Validated /\ event.httpMethod \in {"POST", "PUT"}
        /\ event.body.kind \in {"json", "map"}
        /\ FirstFailure((IF event.httpMethod = "POST"
                         THEN CreateEnvelopeChecks(event)
                         ELSE UpdateEnvelopeChecks(event))
                        \o SubSeq(FieldChecks(event.body.obj), 1, 6)
                        \o SubSeq(FieldChecks(event.body.obj), 8, 8)) = Absent)
      => LET time == event.body.obj["service_time"] IN
         /\ ~verdict.raised
         /\ verdict.is_valid
               <=> \/ time.t = "missing"
                   \/ HasTimeShape(time.v) /\ HourOf(time.v) \in 0..23

\* C24: the customer query drains pagination before it returns: whatever the
\* size of the store's pages, a get-by-customer whose calls all succeed is
\* answered with the customer's records of every page, in index order, and
\* every call it made is a query; when a call fails the answer is 500, never
\* the items of the pages read so far.
C24_PaginationDrained ==
    (PassedValidation /\ ByCustomer(event))
      => LET customerId == event.pathParameters.customerId
             locationId == event.queryStringParameters.locationId
             expected == SelectSeq(PKOrder, LAMBDA pk :
                            /\ <<pk, customerId>> \in DOMAIN table
                            /\ \/ Falsy(locationId)
                               \/ table[<<pk, customerId>>].location_id = locationId)
         IN  /\ calls # <<>>
             /\ \A i \in 1..Len(calls) : calls[i] = "query"
             /\ StoreRaised => response = InternalError
             /\ (NoStoreFault /\ Renderable(event))
                   => /\ response.statusCode = 200
                      /\ response.body.kind = "list"
                      /\ [i \in 1..Len(response.body.items) |-> response.body.items[i].id]
                            = expected

C24_Witness ==
    /\ ByCustomer(event)
    /\ calls = <<"query", "query">>
    /\ response.statusCode = 200
    /\ response.body.kind = "list"
    /\ Len(response.body.items) = 2
    /\ response.body.items[2].id = "a2"

\* C25: update does no read-modify-write, so two concurrent valid updates of
\* one stored record both succeed and leave the record as applying the two
\* payloads one after the other, in one of the two orders, leaves it.
C25_ConcurrentUpdatesCompose ==
    (/\ inflight # NoInflight
     /\ \A p \in Procs :
           /\ Done(p)
           /\ inflight[p].event.httpMethod = "PUT"
           /\ validate_update_request(inflight[p].event).is_valid
     /\ KeyOf(inflight[1].event) = KeyOf(inflight[2].event)
     /\ KeyOf(inflight[1].event) \in DOMAIN before)
      => LET key == KeyOf(inflight[1].event)
             d1 == validate_update_request(inflight[1].event).body
             d2 == validate_update_request(inflight[2].event).body
         IN  /\ \A p \in Procs : inflight[p].response.statusCode = 200
             /\ table[key].updated_at # Absent
             /\ \/ SameButUpdatedAt(table[key], ApplyDelta(ApplyDelta(before[key], d1), d2))
                \/ SameButUpdatedAt(table[key], ApplyDelta(ApplyDelta(before[key], d2), d1))

\* C26: every invocation of lambda_handler, whatever the event, ends with a
\* response envelope whose statusCode is one of 200, 201, 204, 400, 404, 405,
\* 500; no exception leaves it.
C26_AlwaysResponds ==
    Invoked =>
        /\ response.body.kind # "exception"
        /\ response.statusCode \in StatusCodes

\* C27: update and delete never create a record: under every interleaving
\* of the store calls of concurrent invocations, every record the table holds
\* beyond those it started with is under the key a create answered 201 for,
\* and an update or delete answered 404 leaves no record under its key.
C27_NoRecordCreated ==
    inflight # NoInflight =>
        /\ \A k \in DOMAIN table \ DOMAIN before :
              \E p \in Procs :
                 /\ inflight[p].event.httpMethod = "POST"
                 /\ inflight[p].response.statusCode = 201
                 /\ k = <<inflight[p].response.body.order.id,
                          inflight[p].event.pathParameters.customerId>>
        /\ \A p \in Procs :
              (/\ Done(p)
               /\ inflight[p].event.httpMethod \in {"PUT", "DELETE"}
               /\ inflight[p].response = NotFound)
                => KeyOf(inflight[p].event) \notin DOMAIN table

\* a delete has written between the read and the write of another delete of
\* the same record
C27_Witness ==
    /\ inflight # NoInflight
    /\ Done(1)
    /\ inflight[1].event.httpMethod = "DELETE"
    /\ inflight[1].response.statusCode = 204
    /\ inflight[2].pc = "read"
    /\ KeyOf(inflight[2].event) = KeyOf(inflight[1].event)
    /\ inflight[2].existing # NoItem
    /\ inflight[2].existing.deleted_at = Absent
    /\ table[KeyOf(inflight[1].event)].deleted_at # Absent

\* C28: a record marked deleted is still updatable: a valid update of a
\* record whose deleted_at is set is answered 200, sets updated_at and leaves
\* deleted_at as it was; no update changes the deleted_at of any record.
C28_DeletedStillUpdatable ==
    /\ (PassedValidation /\ event.httpMethod = "PUT" /\ NoStoreFault
            /\ KeyOf(event) \in DOMAIN before
            /\ before[KeyOf(event)].deleted_at # Absent
            /\ ~to_response_model(before[KeyOf(event)]).raised)
          => /\ response.statusCode = 200
             /\ table[KeyOf(event)].updated_at = isoformat(clock)
             /\ table[KeyOf(event)].deleted_at = before[KeyOf(event)].deleted_at
    /\ (Invoked /\ event.httpMethod = "PUT")
          => \A k \in DOMAIN before :
                k \in DOMAIN table /\ table[k].deleted_at = before[k].deleted_at

\* C29: customer isolation: an invocation carrying customerId c leaves the
\* records of every other customer as they were, every record in its
\* response has customer_id c, and its response and its store calls are those
\* of the same invocation on a table holding the records of c alone.
C29_CustomerIsolation ==
    Routed =>
        LET c == event.pathParameters.customerId IN
        /\ \A k \in DOMAIN before :
              k[2] # c => (k \in DOMAIN table /\ table[k] = before[k])
        /\ \A k \in DOMAIN table : k[2] # c => k \in DOMAIN before
        /\ response.body.kind = "order" => response.body.order.customer_id = c
        /\ response.body.kind = "list"
              => \A i \in 1..Len(response.body.items) :
                    response.body.items[i].customer_id = c
        /\ \E p \in PageSizes, u \in NewUuids :
              LET alone == lambda_handler(event,
                              [Ctx(OwnRecords(before, c), clock, <<>>, failAt)
                                  EXCEPT !.pageSize = p], u)
              IN  alone.response = response /\ alone.ctx.calls = calls

C29_Witness ==
    /\ Routed
    /\ event.httpMethod = "GET"
    /\ ByKey(event)
    /\ response.statusCode = 200
    /\ response.body.kind = "order"
    /\ response.body.order.customer_id = event.pathParameters.customerId
    /\ \E k \in DOMAIN table :
         k[1] = event.pathParameters.id /\ k[2] # event.pathParameters.customerId

\* C30: a request that passes validation has a non-empty customerId, for
\* create, update, delete and get alike: no store call is made by an
\* invocation whose customerId is empty or absent.
C30_CustomerIdNonEmpty ==
    /\ PassedValidation => ~Falsy(event.pathParameters.customerId)
    /\ (Invoked /\ calls # <<>>) => ~Falsy(event.pathParameters.customerId)

============================================================================
